---- MODULE Spec2Model ----
(***************************************************************************)
(* Booking and payment reconciliation engine of pvt-booking-integration.   *)
(*                                                                         *)
(* The model follows src/api/controllers/bookingController.js and the      *)
(* Mongoose models Room (src/unnamed/part_002) and Booking / Payment       *)
(* (src/unnamed/part_004).  Dates are whole days, the clock is in hours,   *)
(* money is in cents (the room rate is 100.00, so taxes and fees are whole  *)
(* cents).  The payment controller is not part of the                      *)
(* sources; the gateway-event operations follow section 4.4 of the design. *)
(***************************************************************************)
EXTENDS Integers, FiniteSets, Sequences, TLC

\* ---------------------------------------------------------------- bounds
MaxDay       == 3       \* dates are the days 1..MaxDay; day d starts at hour 24 * d
MaxTicks     == 1       \* the clock advances at most MaxTicks times
MaxPayments  == 1       \* payment documents that can be created
MaxDeliveries == 2      \* deliveries of one gateway event that are followed
MaxHour      == 192     \* the cancellation policy is evaluated at the hours 0..MaxHour
RoomCapacity == 2       \* capacity of the room under test
MaxCents     == 1600    \* calculateFees is applied to the amounts 0.01 .. MaxCents / 100

\* ------------------------------------------------------ program constants
HoursPerDay       == 24     \* 1000 * 60 * 60 * 24 ms, in hours
TaxPercent        == 15     \* baseAmount * 0.15
ModifyWindowHours == 24     \* canModify: hoursUntilCheckIn > 24
EarlyCheckInDays  == 1      \* checkIn: daysDiff < -1 is too early
FeePerMille       == 29     \* calculateFees: feePercentage = 2.9
FixedFeeCents     == 30     \* calculateFees: fixedFee = 0.30

\* ------------------------------------------------------------ input sets
RoomId        == "R1"
Days          == 1..MaxDay
GuestCounts   == 1..RoomCapacity
BookingIds    == {1, 2}
PaymentIds    == 1..MaxPayments
ReqIds        == {1, 2}
RoomTypes     == {"private", "dorm"}
Actors        == {"g1", "g2", "s1"}
Creators      == {"g1"}
OwnerAndStaff == {"g1", "s1"}
Staff         == {"s1"}
PartialAmounts == {5000}
RoleOf(a)     == IF a = "s1" THEN "staff" ELSE "guest"

NoDate   == -1
NoCount  == 0
NoStatus == "none"
NoUser   == "nobody"

BOOKING_STATUS == {"pending", "confirmed", "cancelled", "checked_in", "checked_out", "no_show"}

VARIABLES bookings, payments, room, now, resp, reqs, delivered

vars == <<bookings, payments, room, now, resp, reqs, delivered>>

\* ------------------------------------------------------------- helpers
Max(a, b) == IF a >= b THEN a ELSE b

RECURSIVE SumOver(_, _)
SumOver(S, f) ==
  IF S = {} THEN 0
  ELSE LET x == CHOOSE y \in S : TRUE IN f[x] + SumOver(S \ {x}, f)

\* the answer of the last request: the operation, its HTTP status and the
\* cancellationFee of the body (0 when the body carries none)
ReplyFee(op, code, fee) == [op |-> op, code |-> code, cancellationFee |-> fee]
Reply(op, code) == ReplyFee(op, code, 0)

NoBooking == [status |-> NoStatus]
IdleReq   == [pc |-> "idle", user |-> NoUser, checkInDate |-> NoDate, checkOutDate |-> NoDate,
              guestCount |-> NoCount, seen |-> {}, created |-> 0]
NoPayment == [status |-> NoStatus]
Exists(b) == bookings[b].status # NoStatus

\* authorize() letting every role through
StaffOrAdmin_anyRole(a) == RoleOf(a) \in {"staff", "admin", "guest"}

\* authorize('staff', 'admin')
StaffOrAdmin(a) == RoleOf(a) \in {"staff", "admin"}

\* a permission check that lets every guest through
AccessDenied_never(a, bk) == FALSE
\* req.user.role === 'guest' && booking.user !== req.user._id
AccessDenied(a, bk) == RoleOf(a) = "guest" /\ bk.user # a

\* ---------------------------------------------------------- Booking model
\* pre('save') without the Math.max(0, ...) clamp
PreSaveRemaining_noClamp(bk) ==
  [bk EXCEPT !.payment.remainingAmount = bk.pricing.totalAmount - bk.payment.paidAmount]

\* pre('save'): remainingAmount = Math.max(0, totalAmount - paidAmount)
PreSaveRemaining(bk) ==
  [bk EXCEPT !.payment.remainingAmount =
     Max(0, bk.pricing.totalAmount - bk.payment.paidAmount)]

\* pre('save') date validation; isNew distinguishes a fresh document
DatesValid(bk, isNew) ==
  /\ bk.checkInDate < bk.checkOutDate
  /\ isNew => bk.checkInDate * HoursPerDay >= (now \div HoursPerDay) * HoursPerDay

HoursUntilCheckIn(bk) == bk.checkInDate * HoursPerDay - now

\* canModify that forgets the status test
canModify_noStatus(bk) == HoursUntilCheckIn(bk) > ModifyWindowHours

\* canModify with >= at the edge of the window
canModify_inclusive(bk) ==
  bk.status \in {"pending", "confirmed"} /\ HoursUntilCheckIn(bk) >= ModifyWindowHours

canModify(bk) ==
  bk.status \in {"pending", "confirmed"} /\ HoursUntilCheckIn(bk) > ModifyWindowHours

\* the tiers compared with <= instead of <
feePercentage_inclusiveUpper(h) ==
  IF h <= 24 THEN 100
  ELSE IF h <= 48 THEN 50
  ELSE IF h <= 168 THEN 25
  ELSE 10

\* the 25% band ending after three days instead of seven
feePercentage_threeDays(h) ==
  IF h < 24 THEN 100
  ELSE IF h < 48 THEN 50
  ELSE IF h < 72 THEN 25
  ELSE 10

feePercentage(h) ==
  IF h < 24 THEN 100
  ELSE IF h < 48 THEN 50
  ELSE IF h < 168 THEN 25
  ELSE 10

calculateCancellationFee(bk) ==
  (bk.pricing.totalAmount * feePercentage(HoursUntilCheckIn(bk))) \div 100

\* Pricing of createBooking / updateBooking
Nights(ci, co) == co - ci
PriceFor(ci, co, g) ==
  LET base == room.basePrice * Nights(ci, co) * g
      tax  == (base * TaxPercent) \div 100
  IN [baseAmount |-> base, taxes |-> tax, totalAmount |-> base + tax]

\* ------------------------------------------------------------- Room model
\* the query with closed ranges: $lte / $gte instead of $lt / $gt
ConflictingBookings_closed(ci, co, excludeId) ==
  {b \in BookingIds :
     /\ Exists(b)
     /\ bookings[b].room = RoomId
     /\ bookings[b].status \in {"confirmed", "checked_in"}
     /\ bookings[b].checkInDate <= co
     /\ bookings[b].checkOutDate >= ci
     /\ b # excludeId}

ConflictingBookings(ci, co, excludeId) ==
  {b \in BookingIds :
     /\ Exists(b)
     /\ bookings[b].room = RoomId
     /\ bookings[b].status \in {"confirmed", "checked_in"}
     /\ bookings[b].checkInDate < co
     /\ bookings[b].checkOutDate > ci
     /\ b # excludeId}

checkAvailability(ci, co, excludeId) ==
  LET conflicting == ConflictingBookings(ci, co, excludeId)
      occupiedBeds == SumOver(conflicting, [b \in BookingIds |-> bookings[b].guestCount])
  IN IF room.type \in {"shared", "dorm"}
     THEN (occupiedBeds + 1) <= room.capacity
     ELSE conflicting = {}

\* updateOccupancy, given the booking collection it reads
updateOccupancy(bks) ==
  LET active == {b \in BookingIds : bks[b].status = "checked_in"}
      occ    == SumOver(active, [b \in BookingIds |-> bks[b].guestCount])
  IN [room EXCEPT
        !.currentOccupancy = occ,
        !.status = IF occ >= room.capacity THEN "occupied"
                   ELSE IF occ > 0 /\ room.type \in {"private", "suite"} THEN "occupied"
                   ELSE "available"]

\* ------------------------------------------------------------------ Init
Init ==
  /\ bookings = [b \in BookingIds |-> NoBooking]
  /\ payments = [p \in PaymentIds |-> NoPayment]
  /\ room \in {[type |-> t, capacity |-> RoomCapacity, basePrice |-> 10000,
                status |-> "available", isActive |-> TRUE, currentOccupancy |-> 0] :
               t \in RoomTypes}
  /\ now = 0
  /\ resp = Reply("none", 0)
  /\ reqs = [r \in ReqIds |-> IdleReq]
  /\ delivered = [p \in PaymentIds |-> 0]

\* ------------------------------------------------------------ operations
NextFree == CHOOSE b \in BookingIds : ~Exists(b) /\ \A c \in BookingIds : c < b => Exists(c)

NewBooking(a, ci, co, g) ==
  [status |-> "pending", user |-> a, room |-> RoomId,
   checkInDate |-> ci, checkOutDate |-> co, guestCount |-> g,
   pricing |-> PriceFor(ci, co, g),
   payment |-> [status |-> "pending", paidAmount |-> 0,
                remainingAmount |-> PriceFor(ci, co, g).totalAmount,
                transactions |-> {}],
   actualCheckIn |-> NoDate, actualCheckOut |-> NoDate,
   cancellation |-> [recorded |-> FALSE, refundAmount |-> 0]]

\* The refusals of createBooking before the document is built: 0 when none
CreateChecks(ci, co, g) ==
  IF co <= ci THEN 400                        \* validateBookingCreation
  ELSE IF ~room.isActive THEN 400
  ELSE IF g > room.capacity THEN 400
  ELSE IF ~checkAvailability(ci, co, 0) THEN 400
  ELSE 0

\* POST /api/bookings, run without interruption
createBooking(a, ci, co, g) ==
  /\ \E b \in BookingIds : ~Exists(b)
  /\ UNCHANGED <<payments, room, now, reqs, delivered>>
  /\ IF CreateChecks(ci, co, g) # 0
     THEN resp' = Reply("createBooking", CreateChecks(ci, co, g)) /\ UNCHANGED bookings
     ELSE IF ~DatesValid(NewBooking(a, ci, co, g), TRUE)
     THEN resp' = Reply("createBooking", 500) /\ UNCHANGED bookings
     ELSE /\ bookings' = [bookings EXCEPT ![NextFree] = PreSaveRemaining(NewBooking(a, ci, co, g))]
          /\ resp' = Reply("createBooking", 201)

\* POST /api/bookings as two steps of request r: Room.findById and
\* room.checkAvailability are awaited before booking.save() is issued
createBookingCheck(r, a, ci, co, g) ==
  /\ reqs[r].pc = "idle"
  /\ UNCHANGED <<bookings, payments, room, now, delivered>>
  /\ IF CreateChecks(ci, co, g) # 0
     THEN /\ resp' = Reply("createBooking", CreateChecks(ci, co, g))
          /\ reqs' = [reqs EXCEPT ![r].pc = "done"]
     ELSE /\ resp' = resp
          /\ reqs' = [reqs EXCEPT ![r] = [pc |-> "checked", user |-> a, checkInDate |-> ci,
                                          checkOutDate |-> co, guestCount |-> g,
                                          seen |-> {b \in BookingIds : Exists(b)}, created |-> 0]]

createBookingSave(r) ==
  /\ reqs[r].pc = "checked"
  /\ \E b \in BookingIds : ~Exists(b)
  /\ UNCHANGED <<payments, room, now, delivered>>
  /\ LET q  == reqs[r]
         bk == NewBooking(q.user, q.checkInDate, q.checkOutDate, q.guestCount)
     IN IF ~DatesValid(bk, TRUE)
        THEN /\ resp' = Reply("createBooking", 500)
             /\ reqs' = [reqs EXCEPT ![r].pc = "done"]
             /\ UNCHANGED bookings
        ELSE /\ bookings' = [bookings EXCEPT ![NextFree] = PreSaveRemaining(bk)]
             /\ reqs' = [reqs EXCEPT ![r].pc = "done", ![r].created = NextFree]
             /\ resp' = Reply("createBooking", 201)

\* the body of the listing: the ids of data.bookings
ReplyList(ids) ==
  [op |-> "getAllBookings", code |-> 200, cancellationFee |-> 0, bookings |-> ids]

\* GET /api/bookings with the query parameter userId (NoUser when absent)
getAllBookings(a, userId) ==
  /\ UNCHANGED <<bookings, payments, room, now, reqs, delivered>>
  /\ LET asked == IF userId # NoUser THEN userId ELSE NoUser
         user  == IF RoleOf(a) = "guest" THEN a ELSE asked
     IN resp' = ReplyList({b \in BookingIds :
                             Exists(b) /\ (user # NoUser => bookings[b].user = user)})

\* GET /api/bookings/:id
getBookingById(a, b) ==
  /\ UNCHANGED <<bookings, payments, room, now, reqs, delivered>>
  /\ IF ~Exists(b)
     THEN resp' = Reply("getBookingById", 404)
     ELSE IF AccessDenied(a, bookings[b])
     THEN resp' = Reply("getBookingById", 403)
     ELSE resp' = Reply("getBookingById", 200)
\* Object.assign(booking, updates): a field that is absent from the request
\* body (NoDate / NoCount / NoStatus) keeps the stored value.
Patches ==
  [checkInDate : Days \cup {NoDate}, checkOutDate : {NoDate}, guestCount : {NoCount}, status : {NoStatus}]
  \cup [checkInDate : {NoDate}, checkOutDate : Days, guestCount : GuestCounts \cup {NoCount}, status : {NoStatus}]
  \cup [checkInDate : {NoDate}, checkOutDate : {NoDate}, guestCount : {NoCount}, status : BOOKING_STATUS]

\* request bodies that carry no status
DatePatches == {u \in Patches : u.status = NoStatus}


\* request bodies that carry only a guest count; validateBookingUpdate lets
\* the counts 1..20 through, one above the capacity stands for the large ones
GuestPatches ==
  [checkInDate : {NoDate}, checkOutDate : {NoDate}, guestCount : 1..(RoomCapacity + 1),
   status : {NoStatus}]
HasDates(u) == u.checkInDate # NoDate \/ u.checkOutDate # NoDate

ApplyUpdates(bk, u) ==
  LET newCheckIn  == IF u.checkInDate # NoDate THEN u.checkInDate ELSE bk.checkInDate
      newCheckOut == IF u.checkOutDate # NoDate THEN u.checkOutDate ELSE bk.checkOutDate
      guestCount  == IF u.guestCount # NoCount THEN u.guestCount ELSE bk.guestCount
      price       == PriceFor(newCheckIn, newCheckOut, guestCount)
      priced      == IF HasDates(u)
                     THEN [bk EXCEPT !.pricing = price,
                                     !.payment.remainingAmount =
                                        price.totalAmount - bk.payment.paidAmount]
                     ELSE bk
  IN [priced EXCEPT !.checkInDate = newCheckIn,
                    !.checkOutDate = newCheckOut,
                    !.guestCount = guestCount,
                    !.status = IF u.status # NoStatus THEN u.status ELSE bk.status]

\* PUT /api/bookings/:id
updateBooking(a, b, u) ==
  /\ UNCHANGED <<payments, room, now, reqs, delivered>>
  /\ IF ~Exists(b)
     THEN resp' = Reply("updateBooking", 404) /\ UNCHANGED bookings
     ELSE IF AccessDenied(a, bookings[b])
     THEN resp' = Reply("updateBooking", 403) /\ UNCHANGED bookings
     ELSE IF ~canModify(bookings[b])
     THEN resp' = Reply("updateBooking", 400) /\ UNCHANGED bookings
     ELSE IF HasDates(u) /\ ~checkAvailability(ApplyUpdates(bookings[b], u).checkInDate,
                                               ApplyUpdates(bookings[b], u).checkOutDate, b)
     THEN resp' = Reply("updateBooking", 400) /\ UNCHANGED bookings
     ELSE IF ~DatesValid(ApplyUpdates(bookings[b], u), FALSE)
     THEN resp' = Reply("updateBooking", 500) /\ UNCHANGED bookings
     ELSE /\ bookings' = [bookings EXCEPT ![b] = PreSaveRemaining(ApplyUpdates(bookings[b], u))]
          /\ resp' = Reply("updateBooking", 200)

\* ['pending', 'confirmed'].includes(booking.status)
CanCancel(bk) == bk.status \in {"pending", "confirmed"}

\* the refund without the Math.max(0, ...) clamp
RefundFor_noClamp(bk, fee) == bk.payment.paidAmount - fee

\* refundAmount = Math.max(0, paidAmount - cancellationFee)
RefundFor(bk, fee) == Max(0, bk.payment.paidAmount - fee)

\* a cancel that also takes the refund off the paid amount
Cancelled_paidBack(bk, refundAmount) ==
  [bk EXCEPT !.status = "cancelled",
             !.cancellation = [recorded |-> TRUE, refundAmount |-> refundAmount],
             !.payment.paidAmount = @ - refundAmount]

\* booking.status = CANCELLED; booking.cancellation = {...}
Cancelled(bk, refundAmount) ==
  [bk EXCEPT !.status = "cancelled",
             !.cancellation = [recorded |-> TRUE, refundAmount |-> refundAmount]]

\* DELETE /api/bookings/:id
cancelBooking(a, b) ==
  /\ UNCHANGED <<payments, room, now, reqs, delivered>>
  /\ IF ~Exists(b)
     THEN resp' = Reply("cancelBooking", 404) /\ UNCHANGED bookings
     ELSE IF AccessDenied(a, bookings[b])
     THEN resp' = Reply("cancelBooking", 403) /\ UNCHANGED bookings
     ELSE IF ~CanCancel(bookings[b])
     THEN resp' = Reply("cancelBooking", 400) /\ UNCHANGED bookings
     ELSE LET bk           == bookings[b]
              fee          == calculateCancellationFee(bk)
              refundAmount == RefundFor(bk, fee)
              cancelled    == Cancelled(bk, refundAmount)
          IN /\ bookings' = [bookings EXCEPT ![b] = PreSaveRemaining(cancelled)]
             /\ resp' = ReplyFee("cancelBooking", 200, fee)

\* check-in guard that also lets pending bookings through
CanCheckIn_pendingToo(bk) == bk.status \in {"pending", "confirmed"}

\* booking.status !== BOOKING_STATUS.CONFIRMED
CanCheckIn(bk) == bk.status = "confirmed"

\* daysDiff = Math.floor((today - checkInDate) / day) < -1
TooEarly(bk) == now - bk.checkInDate * HoursPerDay < -(EarlyCheckInDays * HoursPerDay)

\* POST /api/bookings/:id/checkin
checkIn(a, b) ==
  /\ UNCHANGED <<payments, now, reqs, delivered>>
  /\ IF ~StaffOrAdmin(a)
     THEN resp' = Reply("checkIn", 403) /\ UNCHANGED <<bookings, room>>
     ELSE IF ~Exists(b)
     THEN resp' = Reply("checkIn", 404) /\ UNCHANGED <<bookings, room>>
     ELSE IF ~CanCheckIn(bookings[b])
     THEN resp' = Reply("checkIn", 400) /\ UNCHANGED <<bookings, room>>
     ELSE IF TooEarly(bookings[b])
     THEN resp' = Reply("checkIn", 400) /\ UNCHANGED <<bookings, room>>
     ELSE LET saved == [bookings EXCEPT ![b] =
                          PreSaveRemaining([bookings[b] EXCEPT !.status = "checked_in",
                                                               !.actualCheckIn = now])]
          IN /\ bookings' = saved
             /\ room' = updateOccupancy(saved)
             /\ resp' = Reply("checkIn", 200)

\* booking.status !== BOOKING_STATUS.CHECKED_IN
CanCheckOut(bk) == bk.status = "checked_in"

\* POST /api/bookings/:id/checkout
checkOut(a, b) ==
  /\ UNCHANGED <<payments, now, reqs, delivered>>
  /\ IF ~StaffOrAdmin(a)
     THEN resp' = Reply("checkOut", 403) /\ UNCHANGED <<bookings, room>>
     ELSE IF ~Exists(b)
     THEN resp' = Reply("checkOut", 404) /\ UNCHANGED <<bookings, room>>
     ELSE IF ~CanCheckOut(bookings[b])
     THEN resp' = Reply("checkOut", 400) /\ UNCHANGED <<bookings, room>>
     ELSE LET saved == [bookings EXCEPT ![b] =
                          PreSaveRemaining([bookings[b] EXCEPT !.status = "checked_out",
                                                               !.actualCheckOut = now])]
          IN /\ bookings' = saved
             /\ room' = updateOccupancy(saved)
             /\ resp' = Reply("checkOut", 200)


\* ------------------------------------- check-in and check-out, step by step
\* A request that has saved its booking and is inside room.updateOccupancy():
\* pc is "saved" after booking.save(), "read" after Room.findById and the
\* Booking.find of updateOccupancy; loaded is the room document it holds and
\* occ the occupancy it computed from the bookings it read
OccReq(pc, op, loaded, occ) == [pc |-> pc, op |-> op, loaded |-> loaded, occ |-> occ]

\* checkIn up to and including booking.save()
checkInSave(r, a, b) ==
  /\ reqs[r].pc = "idle"
  /\ UNCHANGED <<payments, room, now, delivered>>
  /\ IF ~StaffOrAdmin(a)
     THEN resp' = Reply("checkIn", 403) /\ UNCHANGED <<bookings, reqs>>
     ELSE IF ~Exists(b)
     THEN resp' = Reply("checkIn", 404) /\ UNCHANGED <<bookings, reqs>>
     ELSE IF ~CanCheckIn(bookings[b])
     THEN resp' = Reply("checkIn", 400) /\ UNCHANGED <<bookings, reqs>>
     ELSE IF TooEarly(bookings[b])
     THEN resp' = Reply("checkIn", 400) /\ UNCHANGED <<bookings, reqs>>
     ELSE /\ bookings' = [bookings EXCEPT ![b] =
                            PreSaveRemaining([bookings[b] EXCEPT !.status = "checked_in",
                                                                 !.actualCheckIn = now])]
          /\ reqs' = [reqs EXCEPT ![r] = OccReq("saved", "checkIn", room, 0)]
          /\ resp' = resp

\* checkOut up to and including booking.save()
checkOutSave(r, a, b) ==
  /\ reqs[r].pc = "idle"
  /\ UNCHANGED <<payments, room, now, delivered>>
  /\ IF ~StaffOrAdmin(a)
     THEN resp' = Reply("checkOut", 403) /\ UNCHANGED <<bookings, reqs>>
     ELSE IF ~Exists(b)
     THEN resp' = Reply("checkOut", 404) /\ UNCHANGED <<bookings, reqs>>
     ELSE IF ~CanCheckOut(bookings[b])
     THEN resp' = Reply("checkOut", 400) /\ UNCHANGED <<bookings, reqs>>
     ELSE /\ bookings' = [bookings EXCEPT ![b] =
                            PreSaveRemaining([bookings[b] EXCEPT !.status = "checked_out",
                                                                 !.actualCheckOut = now])]
          /\ reqs' = [reqs EXCEPT ![r] = OccReq("saved", "checkOut", room, 0)]
          /\ resp' = resp

\* Room.findById and the Booking.find of updateOccupancy: the request holds
\* the room document and the occupancy of the checked_in bookings it read
occupancyRead(r) ==
  /\ reqs[r].pc = "saved"
  /\ reqs' = [reqs EXCEPT ![r] =
                OccReq("read", reqs[r].op, room, updateOccupancy(bookings).currentOccupancy)]
  /\ UNCHANGED <<bookings, payments, room, now, resp, delivered>>

\* this.save() of updateOccupancy: the paths of the held document that the
\* method changed are written to the stored room, then the handler answers
occupancyWrite(r) ==
  /\ reqs[r].pc = "read"
  /\ LET q      == reqs[r]
         status == IF q.occ >= q.loaded.capacity THEN "occupied"
                   ELSE IF q.occ > 0 /\ q.loaded.type \in {"private", "suite"} THEN "occupied"
                   ELSE "available"
     IN room' = [room EXCEPT
                   !.currentOccupancy = IF q.occ # q.loaded.currentOccupancy THEN q.occ ELSE @,
                   !.status = IF status # q.loaded.status THEN status ELSE @]
  /\ resp' = Reply(reqs[r].op, 200)
  /\ reqs' = [reqs EXCEPT ![r] = IdleReq]
  /\ UNCHANGED <<bookings, payments, now, delivered>>
\* ------------------------------------------------------- room operations
ROOM_STATUS == {"available", "occupied", "maintenance", "cleaning", "out_of_order"}

\* the body of the availability answer: data.available
ReplyAvailable(available) ==
  [op |-> "checkAvailability", code |-> 200, cancellationFee |-> 0, available |-> available]

\* PUT /api/rooms/:id with a status in the body (admin)
updateRoom(st) ==
  /\ room' = [room EXCEPT !.status = st]
  /\ resp' = Reply("updateRoom", 200)
  /\ UNCHANGED <<bookings, payments, now, reqs, delivered>>

\* DELETE /api/rooms/:id (admin): the room is deactivated
deleteRoom ==
  /\ UNCHANGED <<bookings, payments, now, reqs, delivered>>
  /\ IF \E b \in BookingIds : bookings[b].status \in {"confirmed", "checked_in"}
     THEN resp' = Reply("deleteRoom", 400) /\ UNCHANGED room
     ELSE /\ room' = [room EXCEPT !.isActive = FALSE]
          /\ resp' = Reply("deleteRoom", 200)

\* GET /api/rooms/:id/availability (RoomController.checkAvailability)
roomAvailability(ci, co, g) ==
  /\ UNCHANGED <<bookings, payments, room, now, reqs, delivered>>
  /\ IF ~room.isActive \/ room.status # "available"
     THEN resp' = ReplyAvailable(FALSE)
     ELSE IF g > room.capacity
     THEN resp' = ReplyAvailable(FALSE)
     ELSE resp' = ReplyAvailable(checkAvailability(ci, co, 0))
\* ------------------------------------------------- payment reconciliation
\* initiatePayment: a Payment document is created pending for the booking
NextFreePayment ==
  CHOOSE p \in PaymentIds : payments[p].status = NoStatus
                            /\ \A q \in PaymentIds : q < p => payments[q].status # NoStatus

PaymentAmounts(b) ==
  IF Exists(b) THEN {bookings[b].payment.remainingAmount} \cup PartialAmounts ELSE PartialAmounts

createPaymentIntent(b, amount) ==
  /\ \E p \in PaymentIds : payments[p].status = NoStatus
  /\ UNCHANGED <<bookings, room, now, reqs, delivered>>
  /\ IF amount <= 0                           \* validatePayment
     THEN resp' = Reply("createPaymentIntent", 400) /\ UNCHANGED payments
     ELSE IF ~Exists(b)
     THEN resp' = Reply("createPaymentIntent", 404) /\ UNCHANGED payments
     ELSE /\ payments' = [payments EXCEPT ![NextFreePayment] =
                            [status |-> "pending", booking |-> b, amount |-> amount,
                             refunds |-> <<>>]]
          /\ resp' = Reply("createPaymentIntent", 200)

\* duplicate detection that looks at the wrong payment status and so never
\* recognises a delivered succeeded event
AlreadyApplied_never(p) == payments[p].status = "failed"

\* The event of gateway reference p was applied before: its transaction
\* record is on the booking
AlreadyApplied(p) == p \in bookings[payments[p].booking].payment.transactions

\* the reconciler crediting the booking without confirming it
CreditBooking_staysPending(bk, p, amount) ==
  LET credited == PreSaveRemaining([bk EXCEPT !.payment.paidAmount = @ + amount,
                                              !.payment.transactions = @ \cup {p}])
  IN IF credited.payment.remainingAmount <= 0
     THEN [credited EXCEPT !.payment.status = "paid"]
     ELSE [credited EXCEPT !.payment.status = "partial"]
\* Effect of a succeeded event of reference p on its booking
CreditBooking(bk, p, amount) ==
  LET credited == PreSaveRemaining([bk EXCEPT !.payment.paidAmount = @ + amount,
                                              !.payment.transactions = @ \cup {p}])
  IN IF credited.payment.remainingAmount <= 0
     THEN [credited EXCEPT !.payment.status = "paid",
                           !.status = IF @ = "pending" THEN "confirmed" ELSE @]
     ELSE [credited EXCEPT !.payment.status = "partial"]

\* applyGatewayEvent, kind Succeeded, for gateway reference p
applySucceeded(p) ==
  /\ delivered[p] < MaxDeliveries
  /\ UNCHANGED <<room, now, reqs>>
  /\ resp' = Reply("webhook", 200)
  /\ IF payments[p].status = NoStatus
     THEN UNCHANGED <<bookings, payments, delivered>>
     ELSE IF AlreadyApplied(p)
     THEN /\ delivered' = [delivered EXCEPT ![p] = @ + 1]
          /\ UNCHANGED <<bookings, payments>>
     ELSE /\ delivered' = [delivered EXCEPT ![p] = @ + 1]
          /\ payments' = [payments EXCEPT ![p].status = "succeeded"]
          /\ bookings' = [bookings EXCEPT ![payments[p].booking] =
                            CreditBooking(@, p, payments[p].amount)]

\* paymentSchema.methods.markAsFailed
markAsFailed(pm) == [pm EXCEPT !.status = "failed"]

\* applyGatewayEvent, kind Failed or Cancelled, for gateway reference p
applyFailed(p) ==
  /\ UNCHANGED <<bookings, room, now, reqs, delivered>>
  /\ resp' = Reply("webhook", 200)
  /\ IF payments[p].status = NoStatus
     THEN UNCHANGED payments
     ELSE payments' = [payments EXCEPT ![p] = markAsFailed(@)]
\* ------------------------------------------------------ StripeUtils fees
\* Math.round(x * 100) / 100 of a value of q thousandths of a cent, in cents.
\* Away from a tie the double gives the nearest cent.  At a tie (q ends in
\* 500) the double that stands for x * 100 lies just below, on or just above
\* the half, depending on the amount, so either neighbour is returned.
RoundCents(q) ==
  IF q % 1000 = 500
  THEN {q \div 1000, q \div 1000 + 1}
  ELSE {(q + 500) \div 1000}

\* the answer of calculateFees, every amount in cents
FeesOf(amount, percentageFee, totalFees, netAmount) ==
  [op |-> "calculateFees", amount |-> amount, percentageFee |-> percentageFee,
   fixedFee |-> FixedFeeCents, totalFees |-> totalFees, netAmount |-> netAmount]

\* calculateFees(amount) with the default feePercentage and fixedFee
calculateFees(amount) ==
  /\ LET percentageFee == amount * FeePerMille                \* thousandths of a cent
         totalFees     == percentageFee + FixedFeeCents * 1000
         netAmount     == amount * 1000 - totalFees
     IN \E p \in RoundCents(percentageFee), t \in RoundCents(totalFees),
           n \in RoundCents(netAmount) :
          resp' = FeesOf(amount, p, t, n)
  /\ UNCHANGED <<bookings, payments, room, now, reqs, delivered>>
\* ------------------------------------------------------------- refunds
RECURSIVE SumSucceeded(_)
SumSucceeded(refunds) ==
  IF refunds = <<>> THEN 0
  ELSE (IF Head(refunds).status = "succeeded" THEN Head(refunds).amount ELSE 0)
       + SumSucceeded(Tail(refunds))

\* virtual('totalRefunded')
totalRefunded(pm) == SumSucceeded(pm.refunds)

\* virtual('refundableAmount')
refundableAmount(pm) ==
  IF pm.status # "succeeded" THEN 0 ELSE pm.amount - totalRefunded(pm)

\* processRefund without the comparison against the refundable amount
ExceedsRefundable_never(pm, amount) == FALSE

\* amount > this.refundableAmount
ExceedsRefundable(pm, amount) == amount > refundableAmount(pm)

\* amounts asked back: a part, the whole payment, more than the payment
RefundAmounts(p) == {2000, payments[p].amount, payments[p].amount + 2000}

\* paymentSchema.methods.processRefund on the stored payment p; a throw is
\* answered 400
processRefund(p, amount) ==
  /\ payments[p].status # NoStatus
  /\ UNCHANGED <<bookings, room, now, reqs, delivered>>
  /\ IF payments[p].status # "succeeded"
     THEN resp' = Reply("processRefund", 400) /\ UNCHANGED payments
     ELSE IF ExceedsRefundable(payments[p], amount)
     THEN resp' = Reply("processRefund", 400) /\ UNCHANGED payments
     ELSE LET pm     == payments[p]
              pushed == Append(pm.refunds, [amount |-> amount, status |-> "pending"])
              total  == SumSucceeded(pushed) + amount
          IN /\ payments' = [payments EXCEPT ![p].refunds = pushed,
                                              ![p].status = IF total >= pm.amount
                                                            THEN "refunded"
                                                            ELSE "partially_refunded"]
             /\ resp' = Reply("processRefund", 200)

\* the gateway settles the pending refund record i of payment p
settleRefund(p, i, outcome) ==
  /\ payments[p].status # NoStatus
  /\ i \in 1..Len(payments[p].refunds)
  /\ payments[p].refunds[i].status = "pending"
  /\ payments' = [payments EXCEPT ![p].refunds[i].status = outcome]
  /\ resp' = Reply("webhook", 200)
  /\ UNCHANGED <<bookings, room, now, reqs, delivered>>

\* the clock: one day passes
Tick ==
  /\ now + HoursPerDay <= MaxTicks * HoursPerDay
  /\ now' = now + HoursPerDay
  /\ UNCHANGED <<bookings, payments, room, resp, reqs, delivered>>

Next ==
  \/ \E a \in Creators, ci \in Days, co \in Days, g \in GuestCounts : createBooking(a, ci, co, g)
  \/ \E a \in OwnerAndStaff, b \in BookingIds, u \in Patches : updateBooking(a, b, u)
  \/ \E a \in OwnerAndStaff, b \in BookingIds : cancelBooking(a, b)
  \/ \E a \in OwnerAndStaff, b \in BookingIds : checkIn(a, b)
  \/ \E a \in OwnerAndStaff, b \in BookingIds : checkOut(a, b)
  \/ Tick

Spec == Init /\ [][Next]_vars

\* One booking with its payments, handled by staff: the booking operations on
\* the stored booking and the gateway.  The clock stands still and request
\* bodies carry no status here; Spec and SpecLife cover both.
Stored == {b \in BookingIds : Exists(b)}

InitPay == Init /\ room.type = "private"

NextPay ==
  \/ \E a \in Creators, ci \in Days, co \in Days, g \in GuestCounts :
        Stored = {} /\ createBooking(a, ci, co, g)
  \/ \E a \in Staff, b \in Stored, u \in DatePatches : updateBooking(a, b, u)
  \/ \E a \in Staff, b \in Stored : cancelBooking(a, b)
  \/ \E a \in Staff, b \in Stored : checkIn(a, b)
  \/ \E a \in Staff, b \in Stored : checkOut(a, b)
  \/ \E b \in Stored : \E amount \in PaymentAmounts(b) : createPaymentIntent(b, amount)
  \/ \E p \in PaymentIds : applySucceeded(p)

SpecPay == InitPay /\ [][NextPay]_vars

\* One booking through its lifecycle, requests by every actor
NextLife ==
  \/ \E a \in Creators, ci \in Days, co \in Days, g \in GuestCounts :
        Stored = {} /\ createBooking(a, ci, co, g)
  \/ \E a \in Actors, b \in BookingIds, u \in Patches : updateBooking(a, b, u)
  \/ \E a \in Actors, b \in BookingIds : cancelBooking(a, b)
  \/ \E a \in Actors, b \in BookingIds : checkIn(a, b)
  \/ \E a \in Actors, b \in BookingIds : checkOut(a, b)
  \/ Tick

SpecLife == Init /\ [][NextLife]_vars

\* One booking, its payments and their refunds
StoredPayments == {p \in PaymentIds : payments[p].status # NoStatus}

NextRefund ==
  \/ \E a \in Creators, ci \in Days, co \in Days, g \in GuestCounts :
        Stored = {} /\ createBooking(a, ci, co, g)
  \/ \E b \in Stored : \E amount \in PaymentAmounts(b) : createPaymentIntent(b, amount)
  \/ \E p \in PaymentIds : applySucceeded(p)
  \/ \E a \in Staff, b \in Stored : cancelBooking(a, b)
  \/ \E p \in StoredPayments : \E amount \in RefundAmounts(p) : processRefund(p, amount)
  \/ \E p \in StoredPayments : \E i \in 1..Len(payments[p].refunds) :
        \E outcome \in {"succeeded", "failed"} : settleRefund(p, i, outcome)

SpecRefund == InitPay /\ [][NextRefund]_vars

\* One booking and the gateway events of its payments, in any order
NextGateway ==
  \/ \E a \in Creators, ci \in Days, co \in Days, g \in GuestCounts :
        Stored = {} /\ createBooking(a, ci, co, g)
  \/ \E b \in Stored : \E amount \in PaymentAmounts(b) : createPaymentIntent(b, amount)
  \/ \E p \in PaymentIds : applySucceeded(p)
  \/ \E p \in PaymentIds : applyFailed(p)
  \/ \E p \in StoredPayments : \E amount \in RefundAmounts(p) : processRefund(p, amount)

SpecGateway == InitPay /\ [][NextGateway]_vars
\* The cancellation policy: a stored booking whose check-in is on day 8 is
\* cancelled at any hour of the days before
InitFee ==
  /\ room \in {[type |-> t, capacity |-> RoomCapacity, basePrice |-> 10000,
                status |-> "available", isActive |-> TRUE, currentOccupancy |-> 0] :
               t \in RoomTypes}
  /\ now \in 0..MaxHour
  /\ \E g \in GuestCounts, st \in {"pending", "confirmed"} :
        bookings = [b \in BookingIds |->
                      IF b = 1
                      THEN [PreSaveRemaining(NewBooking("g1", 8, 9, g)) EXCEPT !.status = st]
                      ELSE NoBooking]
  /\ payments = [p \in PaymentIds |-> NoPayment]
  /\ resp = Reply("none", 0)
  /\ reqs = [r \in ReqIds |-> IdleReq]
  /\ delivered = [p \in PaymentIds |-> 0]

NextFee == \E a \in OwnerAndStaff, b \in Stored : cancelBooking(a, b)

SpecFee == InitFee /\ [][NextFee]_vars

\* The availability check against a stored booking of any status: a second
\* booking is created and the stored ones are moved
StoredStatuses == {"pending", "confirmed", "checked_in", "cancelled"}

InitAvail ==
  /\ \E t \in RoomTypes, ci \in Days, co \in Days, g \in GuestCounts, st \in StoredStatuses :
        LET occ == IF st = "checked_in" THEN g ELSE 0
        IN /\ ci < co
           /\ room = [type |-> t, capacity |-> RoomCapacity, basePrice |-> 10000,
                       status |-> IF occ >= RoomCapacity \/ (occ > 0 /\ t = "private")
                                  THEN "occupied" ELSE "available",
                       isActive |-> TRUE, currentOccupancy |-> occ]
           /\ bookings = [b \in BookingIds |->
                            IF b = 1
                            THEN [PreSaveRemaining(NewBooking("g1", ci, co, g)) EXCEPT
                                    !.status = st,
                                    !.actualCheckIn = IF st = "checked_in" THEN 0 ELSE NoDate,
                                    !.cancellation.recorded = (st = "cancelled")]
                            ELSE NoBooking]
  /\ payments = [p \in PaymentIds |-> NoPayment]
  /\ now = 0
  /\ resp = Reply("none", 0)
  /\ reqs = [r \in ReqIds |-> IdleReq]
  /\ delivered = [p \in PaymentIds |-> 0]

NextAvail ==
  \/ \E a \in Creators, ci \in Days, co \in Days, g \in GuestCounts : createBooking(a, ci, co, g)
  \/ \E a \in OwnerAndStaff, b \in Stored, u \in DatePatches : updateBooking(a, b, u)

SpecAvail == InitAvail /\ [][NextAvail]_vars

\* One booking and its modifications: request bodies with dates, a status or
\* a guest count alone; guest counts reach one above the capacity
NextModify ==
  \/ \E a \in Creators, ci \in Days, co \in Days, g \in 1..(RoomCapacity + 1) :
        Stored = {} /\ createBooking(a, ci, co, g)
  \/ \E a \in OwnerAndStaff, b \in Stored, u \in Patches \cup GuestPatches :
        updateBooking(a, b, u)

SpecModify == Init /\ [][NextModify]_vars
\* The room is taken out of service or deactivated while bookings are asked for
NextRoom ==
  \/ \E a \in Creators, ci \in Days, co \in Days, g \in GuestCounts : createBooking(a, ci, co, g)
  \/ \E st \in ROOM_STATUS : updateRoom(st)
  \/ deleteRoom
  \/ \E ci \in Days, co \in Days, g \in GuestCounts : ci < co /\ roomAvailability(ci, co, g)

SpecRoom == Init /\ [][NextRoom]_vars
\* The booking of one of two guests, read, listed, modified and cancelled by
\* every actor
Guests == {a \in Actors : RoleOf(a) = "guest"}

NextAccess ==
  \/ \E a \in Guests, ci \in Days, co \in Days, g \in GuestCounts :
        Stored = {} /\ createBooking(a, ci, co, g)
  \/ \E a \in Actors, userId \in Actors \cup {NoUser} : getAllBookings(a, userId)
  \/ \E a \in Actors, b \in BookingIds : getBookingById(a, b)
  \/ \E a \in Actors, b \in Stored, u \in DatePatches : updateBooking(a, b, u)
  \/ \E a \in Actors, b \in Stored : cancelBooking(a, b)

SpecAccess == InitPay /\ [][NextAccess]_vars
\* Two confirmed bookings of the room, one after the other, on the first day:
\* both can be checked in (the second one a day early) and checked out by
\* requests that run at the same time
InitOcc ==
  /\ room \in {[type |-> t, capacity |-> RoomCapacity, basePrice |-> 10000,
                status |-> "available", isActive |-> TRUE, currentOccupancy |-> 0] :
               t \in RoomTypes}
  /\ now = HoursPerDay
  /\ \E g1 \in GuestCounts, g2 \in GuestCounts :
        bookings = [b \in BookingIds |->
                      [PreSaveRemaining(NewBooking("g1", b, b + 1, IF b = 1 THEN g1 ELSE g2))
                         EXCEPT !.status = "confirmed"]]
  /\ payments = [p \in PaymentIds |-> NoPayment]
  /\ resp = Reply("none", 0)
  /\ reqs = [r \in ReqIds |-> IdleReq]
  /\ delivered = [p \in PaymentIds |-> 0]

NextOcc ==
  \/ \E r \in ReqIds, a \in Staff, b \in BookingIds : checkInSave(r, a, b)
  \/ \E r \in ReqIds, a \in Staff, b \in BookingIds : checkOutSave(r, a, b)
  \/ \E r \in ReqIds : occupancyRead(r)
  \/ \E r \in ReqIds : occupancyWrite(r)

SpecOcc == InitOcc /\ [][NextOcc]_vars
\* The fee calculation on every amount of whole cents
NextFees == \E amount \in 1..MaxCents : calculateFees(amount)

SpecFees == InitPay /\ [][NextFees]_vars
\* Two createBooking requests in flight against the same room
NextCreate ==
  \/ \E r \in ReqIds, a \in Creators, ci \in Days, co \in Days, g \in GuestCounts :
        createBookingCheck(r, a, ci, co, g)
  \/ \E r \in ReqIds : createBookingSave(r)

SpecCreate == Init /\ [][NextCreate]_vars

\* ------------------------------------------------------------ properties
Active(bk) == bk.status \in {"confirmed", "checked_in"}
Overlap(x, y) == x.checkInDate < y.checkOutDate /\ y.checkInDate < x.checkOutDate
Terminal == {"checked_out", "cancelled", "no_show"}
LifecycleEdges ==
  {<<"pending", "confirmed">>, <<"confirmed", "checked_in">>, <<"checked_in", "checked_out">>,
   <<"pending", "cancelled">>, <<"confirmed", "cancelled">>, <<"confirmed", "no_show">>}

\* the policy of section 4.5, in percent of the total
PolicyPercent(h) ==
  CASE h < 24 -> 100
    [] 24 <= h /\ h < 48 -> 50
    [] 48 <= h /\ h < 168 -> 25
    [] 168 <= h -> 10

\* C1: in a private or suite room no two distinct bookings that are both
\* confirmed or checked_in have overlapping ranges [checkInDate, checkOutDate).
C1_NoDoubleBooking ==
  room.type \in {"private", "suite"} =>
    \A b1 \in BookingIds, b2 \in BookingIds :
      (b1 # b2 /\ Active(bookings[b1]) /\ Active(bookings[b2]))
        => ~Overlap(bookings[b1], bookings[b2])

\* C2: in a shared or dorm room, at every instant t the guest counts of the
\* confirmed or checked_in bookings whose range contains t sum to at most the
\* capacity of the room.
C2_DormCapacity ==
  room.type \in {"shared", "dorm"} =>
    \A t \in Days :
      SumOver({b \in BookingIds : /\ Active(bookings[b])
                                  /\ bookings[b].checkInDate <= t
                                  /\ t < bookings[b].checkOutDate},
              [b \in BookingIds |-> bookings[b].guestCount]) <= room.capacity

\* C3: two createBooking requests for overlapping ranges that ran concurrently
\* (neither availability read saw the other's booking) never both succeed when
\* the room is private or suite, or when together they exceed the capacity.
C3_NoConcurrentOverbooking ==
  \A r1 \in ReqIds, r2 \in ReqIds :
    ~ /\ r1 # r2
      /\ reqs[r1].created # 0 /\ reqs[r2].created # 0
      /\ reqs[r1].created \notin reqs[r2].seen
      /\ reqs[r2].created \notin reqs[r1].seen
      /\ Overlap(reqs[r1], reqs[r2])
      /\ \/ room.type \in {"private", "suite"}
         \/ reqs[r1].guestCount + reqs[r2].guestCount > room.capacity

C5_RemainingDerived ==
  \A b \in BookingIds :
    Exists(b) =>
      bookings[b].payment.remainingAmount =
        Max(0, bookings[b].pricing.totalAmount - bookings[b].payment.paidAmount)

\* a booking that was paid and then modified to a cheaper stay: the clamp applies
C5_Witness ==
  \E b \in BookingIds :
    /\ Exists(b)
    /\ bookings[b].payment.paidAmount > bookings[b].pricing.totalAmount
    /\ bookings[b].payment.remainingAmount = 0

\* C6: every change of the status of a booking follows an edge of the lifecycle.
C6_LifecycleEdgesOnly ==
  [][\A b \in BookingIds :
       (Exists(b) /\ bookings'[b].status # bookings[b].status)
         => <<bookings[b].status, bookings'[b].status>> \in LifecycleEdges]_vars

\* C7: a booking that is checked_out, cancelled or no_show keeps its status.
C7_TerminalStays ==
  [][\A b \in BookingIds :
       bookings[b].status \in Terminal => bookings'[b].status = bookings[b].status]_vars

\* a cancel was refused (400) while every stored booking was terminal
C7_Witness ==
  /\ \E b \in BookingIds : Exists(b)
  /\ \A b \in BookingIds : Exists(b) => bookings[b].status \in Terminal
  /\ resp = Reply("cancelBooking", 400)

\* C8: no request made by an actor of role guest moves a pending booking to
\* confirmed.
C8_GuestCannotConfirm ==
  [][\A a \in Actors, b \in BookingIds :
       (RoleOf(a) = "guest" /\ bookings[b].status = "pending"
        /\ \/ \E u \in Patches : updateBooking(a, b, u)
           \/ cancelBooking(a, b)
           \/ checkIn(a, b)
           \/ checkOut(a, b))
         => bookings'[b].status # "confirmed"]_vars

\* C9: cancel of a booking that is not pending or confirmed, check-in of a
\* booking that is not confirmed and check-out of a booking that is not
\* checked_in are answered with an error and change neither bookings nor room.
C9_InvalidTransitionRefused ==
  [][\A a \in Actors, b \in BookingIds :
       (/\ Exists(b)
        /\ \/ /\ resp'.op = "cancelBooking"
              /\ bookings[b].status \notin {"pending", "confirmed"}
              /\ cancelBooking(a, b)
           \/ /\ resp'.op = "checkIn"
              /\ bookings[b].status # "confirmed"
              /\ checkIn(a, b)
           \/ /\ resp'.op = "checkOut"
              /\ bookings[b].status # "checked_in"
              /\ checkOut(a, b))
         => /\ resp'.code \in {400, 403}
            /\ bookings' = bookings
            /\ room' = room]_vars

\* a check-in was refused (400) while no stored booking was confirmed
C9_Witness ==
  /\ \E b \in BookingIds : Exists(b)
  /\ \A b \in BookingIds : bookings[b].status # "confirmed"
  /\ resp = Reply("checkIn", 400)

\* C10: checkIn and checkOut by an actor who is neither staff nor admin are
\* answered 403 and leave the bookings (status, actualCheckIn, actualCheckOut)
\* and the room unchanged, whatever the state of the booking.
C10_GuestCheckInOutForbidden ==
  [][\A a \in Actors, b \in BookingIds :
       (/\ RoleOf(a) \notin {"staff", "admin"}
        /\ resp'.op \in {"checkIn", "checkOut"}
        /\ (checkIn(a, b) \/ checkOut(a, b)))
         => /\ resp'.code = 403
            /\ bookings' = bookings
            /\ room' = room]_vars

\* a guest's check-out was answered 403 while a booking was checked in
C10_Witness ==
  /\ \E b \in BookingIds : bookings[b].status = "checked_in"
  /\ resp = Reply("checkOut", 403)
\* C11: for every payment the amounts of its refund records with status
\* succeeded sum to at most the amount of the payment.
C11_RefundsWithinAmount ==
  \A p \in PaymentIds :
    payments[p].status # NoStatus =>
      SumSucceeded(payments[p].refunds) <= payments[p].amount

\* a refund of the whole payment was accepted and settled as succeeded
C11_Witness ==
  \E p \in PaymentIds :
    /\ payments[p].status = "refunded"
    /\ Len(payments[p].refunds) = 1
    /\ payments[p].refunds[1].status = "succeeded"
    /\ payments[p].refunds[1].amount = payments[p].amount

\* C12: processRefund is accepted when the payment is succeeded or
\* partially_refunded and the amount is at most the payment's amount minus its
\* succeeded refunds; otherwise it is refused and the payment's status and
\* refund list stay unchanged.
C12_RefundGuards ==
  [][\A p \in PaymentIds :
       (resp'.op = "processRefund" /\ payments[p].status # NoStatus) =>
         \A amount \in RefundAmounts(p) :
           processRefund(p, amount) =>
             IF /\ payments[p].status \in {"succeeded", "partially_refunded"}
                /\ amount <= payments[p].amount - SumSucceeded(payments[p].refunds)
             THEN /\ resp'.code = 200
                  /\ Len(payments'[p].refunds) = Len(payments[p].refunds) + 1
             ELSE /\ resp'.code = 400
                  /\ payments' = payments]_vars

C14_Fee72HoursTenPercent ==
  \A b \in BookingIds :
    (/\ resp.op = "cancelBooking" /\ resp.code = 200
     /\ bookings[b].status = "cancelled"
     /\ bookings[b].checkInDate * HoursPerDay - now = 72)
      => resp.cancellationFee * 100 = bookings[b].pricing.totalAmount * 10

\* C14 amended: cancelling a booking whose check-in is 72 hours away charges
\* the 25% tier, fee = total * 0.25.
C14_Fee72HoursQuarter ==
  \A b \in BookingIds :
    (/\ resp.op = "cancelBooking" /\ resp.code = 200
     /\ bookings[b].status = "cancelled"
     /\ bookings[b].checkInDate * HoursPerDay - now = 72)
      => resp.cancellationFee * 100 = bookings[b].pricing.totalAmount * 25

\* a booking was cancelled 72 hours before check-in and charged a quarter
C14_Witness ==
  \E b \in BookingIds :
    /\ bookings[b].status = "cancelled"
    /\ bookings[b].checkInDate * HoursPerDay - now = 72
    /\ resp = ReplyFee("cancelBooking", 200, bookings[b].pricing.totalAmount \div 4)

\* C15: a successful cancelBooking records refundAmount = max(0, paidAmount -
\* cancellationFee), so 0 <= refundAmount <= paidAmount; with nothing paid the
\* refundAmount is 0 and the fee is still the policy's.
C15_RefundAmountRecorded ==
  \A b \in BookingIds :
    (resp.op = "cancelBooking" /\ resp.code = 200 /\ bookings[b].status = "cancelled") =>
      LET bk     == bookings[b]
          paid   == bk.payment.paidAmount
          fee    == resp.cancellationFee
          refund == bk.cancellation.refundAmount
      IN /\ bk.cancellation.recorded
         /\ refund = (IF paid - fee > 0 THEN paid - fee ELSE 0)
         /\ 0 <= refund /\ refund <= paid
         /\ fee * 100 = bk.pricing.totalAmount
                           * PolicyPercent(bk.checkInDate * HoursPerDay - now)
         /\ paid = 0 => refund = 0

\* a paid booking was cancelled: part of the payment is kept as the fee
C15_Witness ==
  \E b \in BookingIds :
    /\ resp.op = "cancelBooking" /\ resp.code = 200
    /\ bookings[b].status = "cancelled"
    /\ resp.cancellationFee > 0
    /\ bookings[b].cancellation.refundAmount > 0
    /\ bookings[b].cancellation.refundAmount =
         bookings[b].payment.paidAmount - resp.cancellationFee

\* C16: cancelBooking changes only the status and the cancellation record of
\* the booking; its paidAmount, pricing and transactions, every other booking
\* and every payment with its refund list stay as they were.
C16_CancelMovesNoMoney ==
  [][\A a \in Actors, b \in BookingIds :
       (resp'.op = "cancelBooking" /\ resp'.code = 200 /\ cancelBooking(a, b)) =>
         /\ payments' = payments
         /\ bookings'[b] = [bookings[b] EXCEPT !.status = bookings'[b].status,
                                               !.cancellation = bookings'[b].cancellation]
         /\ \A c \in BookingIds \ {b} : bookings'[c] = bookings[c]]_vars

\* a booking was cancelled while its payment carries a refund record
C16_Witness ==
  \E p \in PaymentIds :
    /\ payments[p].status \in {"refunded", "partially_refunded"}
    /\ bookings[payments[p].booking].status = "cancelled"
    /\ bookings[payments[p].booking].payment.paidAmount = payments[p].amount
    /\ resp.op = "cancelBooking" /\ resp.code = 200

\* C17: on a private or suite room, while a booking created earlier is pending,
\* a createBooking for an overlapping range is refused and creates no booking.
C17_SecondBookingRefused ==
  [][(room.type \in {"private", "suite"} /\ resp'.op = "createBooking") =>
       \A a \in Creators, ci \in Days, co \in Days, g \in GuestCounts :
         (/\ createBooking(a, ci, co, g)
          /\ \E b \in BookingIds : /\ bookings[b].status = "pending"
                                    /\ ci < bookings[b].checkOutDate
                                    /\ bookings[b].checkInDate < co)
           => /\ resp'.code \in {400, 409}
              /\ bookings' = bookings]_vars

\* C18: among the confirmed and checked_in bookings, the availability check
\* counts a booking [c, d) against a request [a, b) exactly when a < d and
\* c < b (a request that starts on the check-out day or ends on the check-in
\* day of the booking is no conflict), and never the booking given as
\* excludeBookingId.
C18_OverlapPredicate ==
  \A a \in Days, b \in Days, ex \in BookingIds \cup {0} :
    a < b =>
      LET counted == {x \in BookingIds : /\ x # ex
                                         /\ Active(bookings[x])
                                         /\ a < bookings[x].checkOutDate
                                         /\ bookings[x].checkInDate < b}
      IN /\ ConflictingBookings(a, b, ex) = counted
         /\ room.type \in {"private", "suite"} => (checkAvailability(a, b, ex) <=> counted = {})

\* in a private room a booking that ends on the day a confirmed or checked_in
\* booking starts was accepted
C18_Witness ==
  /\ room.type = "private"
  /\ Active(bookings[1])
  /\ Exists(2)
  /\ bookings[2].checkOutDate = bookings[1].checkInDate
  /\ resp = Reply("createBooking", 201)

\* C19: in a shared or dorm room the availability check for a request of g
\* guests answers available exactly when the guest counts of the conflicting
\* confirmed or checked_in bookings plus g are at most the capacity.
C19_DormAvailabilityCountsGuests ==
  room.type \in {"shared", "dorm"} =>
    \A ci \in Days, co \in Days, g \in GuestCounts :
      ci < co =>
        LET conflicting == {x \in BookingIds : /\ Active(bookings[x])
                                               /\ ci < bookings[x].checkOutDate
                                               /\ bookings[x].checkInDate < co}
            taken == SumOver(conflicting, [x \in BookingIds |-> bookings[x].guestCount])
        IN checkAvailability(ci, co, 0) <=> (taken + g <= room.capacity)

\* C20: updateBooking succeeds only for a booking that is pending or confirmed
\* with strictly more than 24 hours left until check-in; at 24 hours or less,
\* or in any other status, it is refused and the booking is unchanged.
C20_ModifyWindow ==
  [][\A b \in BookingIds :
       (/\ resp'.op = "updateBooking"
        /\ Exists(b)
        /\ ~ (/\ bookings[b].status \in {"pending", "confirmed"}
               /\ bookings[b].checkInDate * HoursPerDay - now > 24)
        /\ (resp'.code = 200 \/ bookings' # bookings))
         => ~ \E a \in Actors, u \in Patches : updateBooking(a, b, u)]_vars

\* a modification was refused exactly 24 hours before check-in
C20_Witness ==
  \E b \in BookingIds :
    /\ bookings[b].status \in {"pending", "confirmed"}
    /\ bookings[b].checkInDate * HoursPerDay - now = 24
    /\ resp = Reply("updateBooking", 400)

\* C21: a successful updateBooking keeps the booking in the same state: its
\* status, payment.paidAmount, owning user and room are the same after the
\* modification as before it, whatever the request body contains.
C21_ModifyKeepsState ==
  [][\A b \in BookingIds :
       (resp'.op = "updateBooking" /\ resp'.code = 200 /\ Exists(b)) =>
         /\ bookings'[b].status = bookings[b].status
         /\ bookings'[b].payment.paidAmount = bookings[b].payment.paidAmount
         /\ bookings'[b].user = bookings[b].user
         /\ bookings'[b].room = bookings[b].room]_vars

\* C22: after a successful updateBooking that changes the check-in date, the
\* check-out date or the guest count (also the guest count alone) the stored
\* pricing is baseAmount = rate * nights * guestCount, taxes = 15% of it,
\* totalAmount = baseAmount + taxes.
C22_PricingRecomputed ==
  [][\A b \in BookingIds :
       (/\ resp'.op = "updateBooking" /\ resp'.code = 200 /\ Exists(b)
        /\ \/ bookings'[b].checkInDate # bookings[b].checkInDate
           \/ bookings'[b].checkOutDate # bookings[b].checkOutDate
           \/ bookings'[b].guestCount # bookings[b].guestCount) =>
         LET bk   == bookings'[b]
             base == room.basePrice * (bk.checkOutDate - bk.checkInDate) * bk.guestCount
         IN /\ bk.pricing.baseAmount = base
            /\ bk.pricing.taxes * 100 = base * TaxPercent
            /\ bk.pricing.totalAmount = bk.pricing.baseAmount + bk.pricing.taxes]_vars

\* C23: every stored booking has a guestCount of at most the capacity of its
\* room: createBooking and updateBooking refuse a larger guest count.
C23_GuestCountWithinCapacity ==
  \A b \in BookingIds : Exists(b) => bookings[b].guestCount <= room.capacity

\* C24: for a room that is deactivated or whose status is not available,
\* createBooking fails and creates no booking and the availability query
\* answers not available, whatever the requested dates.
C24_RoomOutOfService ==
  [][(~room.isActive \/ room.status # "available") =>
       /\ resp'.op = "createBooking" => (resp'.code # 201 /\ bookings' = bookings)
       /\ resp'.op = "checkAvailability" => ~resp'.available]_vars

\* C25: in every reachable state the currentOccupancy of a room is at most
\* its capacity.
C25_OccupancyWithinCapacity == room.currentOccupancy <= room.capacity

\* C26: the first application of a succeeded event whose amount brings the
\* remaining balance of the booking to 0 sets its payment status to paid and
\* moves a pending booking to confirmed; if a balance remains the payment
\* status becomes partial and the booking keeps its status.
C26_SucceededSettlesBooking ==
  [][\A p \in PaymentIds :
       (/\ resp'.op = "webhook"
        /\ payments[p].status # NoStatus
        /\ p \notin bookings[payments[p].booking].payment.transactions
        /\ applySucceeded(p)) =>
         LET b    == payments[p].booking
             bk   == bookings[b]
             left == bk.pricing.totalAmount - (bk.payment.paidAmount + payments[p].amount)
         IN IF left <= 0
            THEN /\ bookings'[b].payment.status = "paid"
                 /\ bookings'[b].payment.remainingAmount = 0
                 /\ bk.status = "pending" => bookings'[b].status = "confirmed"
            ELSE /\ bookings'[b].payment.status = "partial"
                 /\ bookings'[b].payment.remainingAmount = left
                 /\ bookings'[b].status = bk.status]_vars

\* a pending booking was paid in full by one succeeded event and is confirmed
C26_Witness ==
  \E p \in PaymentIds :
    /\ payments[p].status = "succeeded"
    /\ bookings[payments[p].booking].status = "confirmed"
    /\ bookings[payments[p].booking].payment.status = "paid"
    /\ bookings[payments[p].booking].payment.remainingAmount = 0
    /\ bookings[payments[p].booking].payment.paidAmount = payments[p].amount
    /\ payments[p].amount = bookings[payments[p].booking].pricing.totalAmount

\* C27: a payment whose status is succeeded, failed, refunded or
\* partially_refunded keeps that status in every step, except that a refund
\* moves it to refunded or partially_refunded; a failed or cancelled event
\* after the succeeded one changes nothing.
C27_TerminalPaymentStays ==
  [][\A p \in PaymentIds :
       payments[p].status \in {"succeeded", "failed", "refunded", "partially_refunded"} =>
         payments'[p].status \in {payments[p].status, "refunded", "partially_refunded"}]_vars

\* C28: a get, update or cancel by an actor of role guest on a booking owned
\* by another user is answered 403 and leaves the bookings unchanged, and the
\* listing asked by a guest holds only bookings owned by that guest.
C28_GuestOwnBookingsOnly ==
  [][/\ \A a \in Actors, b \in BookingIds :
          (/\ resp'.op \in {"getBookingById", "updateBooking", "cancelBooking"}
           /\ resp'.code # 403 \/ bookings' # bookings
           /\ RoleOf(a) = "guest"
           /\ Exists(b)
           /\ bookings[b].user # a)
            => ~ \/ getBookingById(a, b)
                 \/ \E u \in Patches : updateBooking(a, b, u)
                 \/ cancelBooking(a, b)
     /\ \A a \in Actors, userId \in Actors \cup {NoUser} :
          (/\ resp'.op = "getAllBookings"
           /\ RoleOf(a) = "guest"
           /\ getAllBookings(a, userId))
            => \A b \in resp'.bookings : bookings[b].user = a]_vars

\* a guest's read of the booking of another guest was refused
C28_Witness ==
  /\ \E b \in BookingIds : Exists(b) /\ bookings[b].user \in Guests
  /\ resp = Reply("getBookingById", 403)

\* C29: whenever no check-in or check-out is in progress, the currentOccupancy
\* of the room equals the sum of guestCount over its checked_in bookings, also
\* after check-ins and check-outs that ran interleaved.
C29_OccupancyMatchesCheckedIn ==
  (\A r \in ReqIds : reqs[r].pc = "idle") =>
    room.currentOccupancy =
      SumOver({b \in BookingIds : bookings[b].status = "checked_in"},
              [b \in BookingIds |-> bookings[b].guestCount])

\* C30: for every amount of whole cents calculateFees returns totalFees =
\* amount * 2.9% + 0.30 rounded half-up to whole cents, and totalFees +
\* netAmount = amount.
C30_FeesRoundedAndConserved ==
  resp.op = "calculateFees" =>
    /\ resp.totalFees = (resp.amount * FeePerMille + FixedFeeCents * 1000 + 500) \div 1000
    /\ resp.totalFees + resp.netAmount = resp.amount
====
